---- MODULE Spec2Model ----
(***************************************************************************)
(* Model of the menu retrieval and caching layer of the cafeteria menu      *)
(* front-end (src/services/menuService.ts): the date utilities, the        *)
(* two-tier day cache (memoryCache + localStorage), getDayMenu and the      *)
(* range assemblers getCenteredMenu / getAdditionalDays / getWeeklyMenu.    *)
(*                                                                         *)
(* Time is counted in milliseconds, as Date.now() does.  A calendar day is  *)
(* a day number n standing for January n, 2024 (day 0 is Sunday             *)
(* 2023-12-31), so n % 7 is JavaScript's getDay() (0 = Sunday, 6 =          *)
(* Saturday).  A Date object is an instant: the model keeps its calendar    *)
(* day in the host's local time zone (what date-fns addDays, subDays and    *)
(* isWeekend read) and the number of calendar days by which the Asia/Seoul  *)
(* calendar is ahead of the host's calendar at that time of day (what       *)
(* toZonedTime adds before format reads the date).                          *)
(***************************************************************************)
EXTENDS Integers, Sequences, FiniteSets, TLC

VARIABLES now, memoryCache, localStorage, calls, lookups, lastReq, lastFail,
          nfetches, storageFull, hostShift, nreloads, dateOp, cacheOp, lastSet, nsets,
          serverCache, handlers, proxyOp, page

vars == <<now, memoryCache, localStorage, calls, lookups, lastReq, lastFail,
          nfetches, storageFull, hostShift, nreloads, dateOp, cacheOp, lastSet, nsets,
          serverCache, handlers, proxyOp, page>>

(***************************************************************************)
(* Bounds of the model                                                     *)
(***************************************************************************)
\* clock ticks (of one hour) in the fetch specification
MaxTicks == 2
\* last hour of the clock of the cache specification
MaxCacheHours == 7
\* setToDayCache calls in one behaviour of the cache specification
MaxSets == 2
\* calls of the exported functions that are pending at the same time
MaxPending == 2
\* network requests in one behaviour
MaxFetches == 2
\* page reloads (module re-initialisations) in one behaviour
MaxReloads == 1
\* largest daysBefore / daysAfter / count of the date specification
MaxCount == 3
\* largest daysBefore + daysAfter, and largest count, of a call in the fetch specification
MaxSpan == 1
\* first and last local calendar day given as a Date argument
FirstDay == 10
LastDay == 20
\* network requests of the page in one behaviour
MaxPageFetches == 3
\* fetches of the remote API by the proxy route in one behaviour
MaxProxyFetches == 3
\* GET handlers of the proxy route awaiting the remote API at the same time
MaxHandlers == 2

HOUR == 60 * 60 * 1000

(***************************************************************************)
(* Dates                                                                   *)
(***************************************************************************)
\* the host calendar is on the same day as Seoul's, one behind or one ahead
KstShifts == {-1, 0, 1}

Dates == [day : FirstDay..LastDay, kstShift : KstShifts]

\* date-fns isWeekend: getDay() of the host-local date is 0 or 6
isWeekend(date) == date.day % 7 \in {0, 6}

\* date-fns addDays / subDays: move the host-local calendar date, keep the time of day
addDays(date, n) == [date EXCEPT !.day = @ + n]

subDays(date, n) == [date EXCEPT !.day = @ - n]

\* toZonedTime(date, "Asia/Seoul"): the Seoul calendar day of the instant
toZonedTime(date) == date.day + date.kstShift

\* format(kstDate, 'yyyyMMdd') for a day of January 2024, as the number yyyyMMdd
format(kstDay) == 20240100 + kstDay

formatKST(date) == format(toZonedTime(date))

\* getDay() of the calendar date that an 8-digit yyyyMMdd key of January 2024 names
DayOfWeek(ymd) == (ymd - 20240100) % 7

IsWeekdayKey(ymd) == DayOfWeek(ymd) \in 1..5

\* a slip: if instead of while, a single step
getNearestWeekdayOneStep(date, direction) ==
  IF isWeekend(date)
  THEN IF direction = "forward" THEN addDays(date, 1) ELSE subDays(date, 1)
  ELSE date

RECURSIVE getNearestWeekday(_, _)
getNearestWeekday(date, direction) ==
  IF isWeekend(date)
  THEN getNearestWeekday(IF direction = "forward" THEN addDays(date, 1)
                         ELSE subDays(date, 1), direction)
  ELSE date

RECURSIVE WeekdaysBeforeLoop(_, _, _)
WeekdaysBeforeLoop(current, dates, count) ==
  IF Len(dates) < count
  THEN WeekdaysBeforeLoop(subDays(current, 1),
                          IF ~isWeekend(current) THEN <<current>> \o dates ELSE dates,
                          count)
  ELSE dates

\* a slip: the walk starts at date itself
getWeekdaysBeforeFromDate(date, count) == WeekdaysBeforeLoop(date, <<>>, count)

getWeekdaysBefore(date, count) == WeekdaysBeforeLoop(subDays(date, 1), <<>>, count)

RECURSIVE WeekdaysAfterLoop(_, _, _)
WeekdaysAfterLoop(current, dates, count) ==
  IF Len(dates) < count
  THEN WeekdaysAfterLoop(addDays(current, 1),
                         IF ~isWeekend(current) THEN Append(dates, current) ELSE dates,
                         count)
  ELSE dates

getWeekdaysAfter(date, count) == WeekdaysAfterLoop(addDays(date, 1), <<>>, count)

\* allDates of getCenteredMenu
CenteredDates(centerDate, daysBefore, daysAfter) ==
  LET adjustedCenter == getNearestWeekday(centerDate, "backward")
  IN  getWeekdaysBefore(adjustedCenter, daysBefore)
        \o <<adjustedCenter>>
        \o getWeekdaysAfter(adjustedCenter, daysAfter)

\* dates of getAdditionalDays
AdditionalDates(referenceDate, direction, count) ==
  IF direction = "before"
  THEN getWeekdaysBefore(referenceDate, count)
  ELSE getWeekdaysAfter(referenceDate, count)

(***************************************************************************)
(* Menus and cache entries                                                 *)
(*                                                                         *)
(* A JSON value handed around as a DayMenu is kept by the properties the    *)
(* code reads: which properties are defined, the lengths of lunch and       *)
(* dinner, and whether salad and dessert are truthy.  null and {} are the   *)
(* value with no property defined.                                          *)
(***************************************************************************)
Languages == {"ko", "en", "zh", "sv"}

\* the languages of the calls of the fetch and cache specifications
CallLanguages == {"en"}

Menu(fields, date, language, lunch, dinner, salad, dessert) ==
  [fields |-> fields, date |-> date, language |-> language, lunch |-> lunch,
   dinner |-> dinner, salad |-> salad, dessert |-> dessert]

DayMenuFields == {"date", "language", "lunch", "dinner", "salad", "dessert"}

\* the required properties of the DayMenu type
RequiredFields == {"date", "language", "lunch", "dinner"}

\* a published menu for the day
FullMenu(date, language) == Menu(DayMenuFields, date, language, 1, 1, TRUE, FALSE)

\* emptyMenu of getDayMenu
EmptyMenu(date, language) == Menu(DayMenuFields, date, language, 0, 0, FALSE, FALSE)

\* a 200 body such as {"lunch": [item]}: not a DayMenu, but nothing the code reads is missing
PartialBody == Menu({"lunch"}, 0, "", 1, 0, FALSE, FALSE)

\* a 200 body such as null, {} or {"error": "..."}
GarbageBody == Menu({}, 0, "", 0, 0, FALSE, FALSE)

Bodies(date, language) ==
  {FullMenu(date, language), EmptyMenu(date, language), PartialBody, GarbageBody}

\* the outcomes of fetch(...) followed by response.json()
Responses(date, language) ==
  [kind : {"neterr", "non2xx", "badjson"}, body : {GarbageBody}]
    \cup [kind : {"ok"}, body : Bodies(date, language)]

\* menu.lunch.length or menu.dinner.length of an undefined property: TypeError
isMenuEmptyThrows(menu) ==
  \/ "lunch" \notin menu.fields
  \/ menu.lunch = 0 /\ "dinner" \notin menu.fields

isMenuEmpty(menu) ==
  /\ menu.lunch = 0
  /\ menu.dinner = 0
  /\ ~menu.salad
  /\ ~menu.dessert

CACHE_DURATION == 6 * 60 * 60 * 1000

EMPTY_CACHE_DURATION == 1 * 60 * 60 * 1000

\* a slip: the isEmpty flag is not looked at
DurationIgnoresEmpty(isEmpty) == CACHE_DURATION

\* duration = isEmpty ? EMPTY_CACHE_DURATION : CACHE_DURATION
Duration(isEmpty) == IF isEmpty THEN EMPTY_CACHE_DURATION ELSE CACHE_DURATION

getDayCacheKey(date, language) == <<"menu-day-", date, language>>

LANGUAGE_STORAGE_KEY == <<"gasan-menu-language", 0, "">>

\* key.startsWith('menu-day-')
startsWithMenuDay(key) == key[1] = "menu-day-"

\* Map / Storage with the keys present as the domain
MapHas(m, k) == k \in DOMAIN m

MapSet(m, k, v) == [x \in DOMAIN m \cup {k} |-> IF x = k THEN v ELSE m[x]]

MapDelete(m, k) == [x \in DOMAIN m \ {k} |-> m[x]]

\* the value under a key as a sequence of at most one element
MapGet(m, k) == IF k \in DOMAIN m THEN <<m[k]>> ELSE <<>>

EmptyMap == [x \in {} |-> 0]

Entry(data, timestamp, isEmpty) ==
  [data |-> data, timestamp |-> timestamp, isEmpty |-> isEmpty]

\* JSON.stringify(cacheData): the stored text
JSONstringify(entry) == [json |-> TRUE, val |-> entry]

\* a stored text that is not JSON
CorruptText == [json |-> FALSE, val |-> Entry(GarbageBody, 0, FALSE)]

\* JSON.parse(cached): throws on text that is not JSON
JSONparse(text) == [threw |-> ~text.json, val |-> text.val]

(***************************************************************************)
(* The two-tier cache                                                      *)
(*                                                                         *)
(* The functions are modelled as they run in the browser, where their       *)
(* callers (the effects of the "use client" page and card) run them: the    *)
(* early returns on typeof window === 'undefined' are not taken.            *)
(***************************************************************************)
\* the result of getFromDayCache: data is <<>> for null
CacheResult(data, mem, ls) == [data |-> data, mem |-> mem, ls |-> ls]

\* a slip: an entry promoted from localStorage is stamped with the time of the read
getFromDayCacheRestamps(date, language, mem, ls, t) ==
  LET key == getDayCacheKey(date, language)
      memHit == /\ MapHas(mem, key)
                /\ t - mem[key].timestamp <= Duration(mem[key].isEmpty)
      mem1 == IF MapHas(mem, key) /\ ~memHit THEN MapDelete(mem, key) ELSE mem
  IN  IF memHit THEN CacheResult(<<mem[key].data>>, mem, ls)
      ELSE IF ~MapHas(ls, key) THEN CacheResult(<<>>, mem1, ls)
      ELSE LET parsed == JSONparse(ls[key])
           IN  IF parsed.threw THEN CacheResult(<<>>, mem1, ls)
               ELSE IF t - parsed.val.timestamp > Duration(parsed.val.isEmpty)
               THEN CacheResult(<<>>, mem1, MapDelete(ls, key))
               ELSE CacheResult(<<parsed.val.data>>,
                                MapSet(mem1, key, [parsed.val EXCEPT !.timestamp = t]),
                                ls)

\* a slip: the expired memory entry is not deleted
getFromDayCacheKeepsExpired(date, language, mem, ls, t) ==
  LET key == getDayCacheKey(date, language)
      memHit == /\ MapHas(mem, key)
                /\ t - mem[key].timestamp <= Duration(mem[key].isEmpty)
  IN  IF memHit THEN CacheResult(<<mem[key].data>>, mem, ls)
      ELSE IF ~MapHas(ls, key) THEN CacheResult(<<>>, mem, ls)
      ELSE LET parsed == JSONparse(ls[key])
           IN  IF parsed.threw THEN CacheResult(<<>>, mem, ls)
               ELSE IF t - parsed.val.timestamp > Duration(parsed.val.isEmpty)
               THEN CacheResult(<<>>, mem, MapDelete(ls, key))
               ELSE CacheResult(<<parsed.val.data>>,
                                MapSet(mem, key, parsed.val), ls)

\* a slip: the entry found in localStorage is promoted whatever its age
getFromDayCacheTrustsStorage(date, language, mem, ls, t) ==
  LET key == getDayCacheKey(date, language)
      memHit == /\ MapHas(mem, key)
                /\ t - mem[key].timestamp <= Duration(mem[key].isEmpty)
      mem1 == IF MapHas(mem, key) /\ ~memHit THEN MapDelete(mem, key) ELSE mem
  IN  IF memHit THEN CacheResult(<<mem[key].data>>, mem, ls)
      ELSE IF ~MapHas(ls, key) THEN CacheResult(<<>>, mem1, ls)
      ELSE LET parsed == JSONparse(ls[key])
           IN  IF parsed.threw THEN CacheResult(<<>>, mem1, ls)
               ELSE CacheResult(<<parsed.val.data>>,
                                MapSet(mem1, key, parsed.val), ls)

getFromDayCache(date, language, mem, ls, t) ==
  LET key == getDayCacheKey(date, language)
      memHit == /\ MapHas(mem, key)
                /\ t - mem[key].timestamp <= Duration(mem[key].isEmpty)
      mem1 == IF MapHas(mem, key) /\ ~memHit THEN MapDelete(mem, key) ELSE mem
  IN  IF memHit THEN CacheResult(<<mem[key].data>>, mem, ls)
      ELSE IF ~MapHas(ls, key) THEN CacheResult(<<>>, mem1, ls)
      ELSE LET parsed == JSONparse(ls[key])
           IN  IF parsed.threw THEN CacheResult(<<>>, mem1, ls)
               ELSE IF t - parsed.val.timestamp > Duration(parsed.val.isEmpty)
               THEN CacheResult(<<>>, mem1, MapDelete(ls, key))
               ELSE CacheResult(<<parsed.val.data>>,
                                MapSet(mem1, key, parsed.val), ls)

\* localeCompare-free Array.prototype.sort() order of two menu keys:
\* "menu-day-" + 8 digits + "-" + language
LangRank(language) ==
  CASE language = "en" -> 1
    [] language = "ko" -> 2
    [] language = "sv" -> 3
    [] language = "zh" -> 4
    [] OTHER -> 0

KeyBefore(a, b) ==
  \/ a[2] < b[2]
  \/ a[2] = b[2] /\ LangRank(a[3]) < LangRank(b[3])

\* a slip: Math.floor for Math.ceil
clearOldMenuCacheFloor(ls) ==
  LET keysToRemove == {k \in DOMAIN ls : startsWithMenuDay(k)}
      half == Cardinality(keysToRemove) \div 2
      removed == {k \in keysToRemove :
                    Cardinality({j \in keysToRemove : KeyBefore(j, k)}) < half}
  IN  [x \in DOMAIN ls \ removed |-> ls[x]]

\* a slip: the prefix of the key is not tested
clearOldMenuCacheAnyKey(ls) ==
  LET keysToRemove == DOMAIN ls
      half == (Cardinality(keysToRemove) + 1) \div 2
      removed == {k \in keysToRemove :
                    Cardinality({j \in keysToRemove : KeyBefore(j, k)}) < half}
  IN  [x \in DOMAIN ls \ removed |-> ls[x]]

clearOldMenuCache(ls) ==
  LET keysToRemove == {k \in DOMAIN ls : startsWithMenuDay(k)}
      half == (Cardinality(keysToRemove) + 1) \div 2
      removed == {k \in keysToRemove :
                    Cardinality({j \in keysToRemove : KeyBefore(j, k)}) < half}
  IN  [x \in DOMAIN ls \ removed |-> ls[x]]

\* a slip: the memory tier is written after localStorage, inside the try
setToDayCacheMemoryLast(date, language, data, mem, ls, t, full1, full2) ==
  IF isMenuEmptyThrows(data) THEN [threw |-> TRUE, mem |-> mem, ls |-> ls]
  ELSE
    LET key == getDayCacheKey(date, language)
        cacheData == Entry(data, t, isMenuEmpty(data))
        cleared == clearOldMenuCache(ls)
    IN  [threw |-> FALSE,
         mem |-> IF full1 /\ full2 THEN mem ELSE MapSet(mem, key, cacheData),
         ls |-> IF ~full1 THEN MapSet(ls, key, JSONstringify(cacheData))
                ELSE IF ~full2 THEN MapSet(cleared, key, JSONstringify(cacheData))
                ELSE cleared]

\* full1, full2: whether the first and the second localStorage.setItem throw
setToDayCache(date, language, data, mem, ls, t, full1, full2) ==
  IF isMenuEmptyThrows(data) THEN [threw |-> TRUE, mem |-> mem, ls |-> ls]
  ELSE
    LET key == getDayCacheKey(date, language)
        cacheData == Entry(data, t, isMenuEmpty(data))
        mem1 == MapSet(mem, key, cacheData)
        cleared == clearOldMenuCache(ls)
    IN  [threw |-> FALSE,
         mem |-> mem1,
         ls |-> IF ~full1 THEN MapSet(ls, key, JSONstringify(cacheData))
                ELSE IF ~full2 THEN MapSet(cleared, key, JSONstringify(cacheData))
                ELSE cleared]

(***************************************************************************)
(* getDayMenu, in its two halves: up to the await of fetch, and from the    *)
(* response on                                                              *)
(***************************************************************************)
getDayMenuStart(date, language, mem, ls, t) ==
  LET formattedDate == formatKST(date)
      cached == getFromDayCache(formattedDate, language, mem, ls, t)
  IN  [formattedDate |-> formattedDate,
       hit |-> cached.data # <<>>,
       value |-> cached.data,
       mem |-> cached.mem,
       ls |-> cached.ls]

\* a slip: no try / catch around the fetch
getDayMenuResumeRejects(formattedDate, language, response, mem, ls, t, full1, full2) ==
  LET stored == setToDayCache(formattedDate, language, response.body,
                              mem, ls, t, full1, full2)
      threw == response.kind # "ok" \/ stored.threw
  IN  IF ~threw
      THEN [rejected |-> FALSE, value |-> response.body,
            mem |-> stored.mem, ls |-> stored.ls]
      ELSE [rejected |-> TRUE, value |-> EmptyMenu(formattedDate, language),
            mem |-> mem, ls |-> ls]

\* from the settling of fetch on: the try block, or the catch block when fetch
\* rejects, the status is not ok, response.json() rejects or setToDayCache throws
getDayMenuResume(formattedDate, language, response, mem, ls, t, full1, full2) ==
  LET stored == setToDayCache(formattedDate, language, response.body,
                              mem, ls, t, full1, full2)
      threw == response.kind # "ok" \/ stored.threw
      emptyMenu == EmptyMenu(formattedDate, language)
      storedEmpty == setToDayCache(formattedDate, language, emptyMenu,
                                   mem, ls, t, full1, full2)
  IN  IF ~threw
      THEN [rejected |-> FALSE, value |-> response.body,
            mem |-> stored.mem, ls |-> stored.ls]
      ELSE [rejected |-> FALSE, value |-> emptyMenu,
            mem |-> storedEmpty.mem, ls |-> storedEmpty.ls]

(***************************************************************************)
(* Promise.all and the exported range functions                            *)
(*                                                                         *)
(* calls holds the calls of the exported functions whose promise is        *)
(* pending, and those that settled in the last step (their record is       *)
(* dropped by the next step).  Each call holds one record per getDayMenu    *)
(* it started: the formatted date, where that getDayMenu stands ("hit":     *)
(* returned from the cache, "wait": awaiting fetch, "done": returned after  *)
(* the response) and its value.  lookups holds what the getDayMenu          *)
(* executions started by the last step saw and did before their await.     *)
(***************************************************************************)
\* a slip: the values in the order in which the promises settled
PromiseAllByCompletion(subs) ==
  LET n == Len(subs)
      rank(i) == Cardinality({j \in 1..n :
                                \/ subs[j].order < subs[i].order
                                \/ subs[j].order = subs[i].order /\ j < i}) + 1
  IN  [r \in 1..n |-> subs[CHOOSE i \in 1..n : rank(i) = r].value[1]]

\* the values of the settled promises, by position in the input array
PromiseAll(subs) == [i \in 1..Len(subs) |-> subs[i].value[1]]

\* the state of Home before its effects run: language null, days [], isLoading
\* true, error null.  daysFor is the language argument of the fetchMenu that
\* set days ("" when none did).
NoPage ==
  [language |-> "", days |-> <<>>, daysFor |-> "", isLoading |-> TRUE, error |-> FALSE,
   showLanguageModal |-> FALSE, isInitialized |-> FALSE]

\* fetchMenu from the settling of its getCenteredMenu on: setDays or setError,
\* then setIsLoading(false); a call that is not a fetchMenu of the page, or is
\* still pending, leaves the page as it is
fetchMenuResume(p, call) ==
  IF call.fn # "fetchMenu" \/ call.status = "pending" THEN p
  ELSE IF call.status = "resolved"
  THEN [p EXCEPT !.days = call.result, !.daysFor = call.language, !.isLoading = FALSE]
  ELSE [p EXCEPT !.error = TRUE, !.isLoading = FALSE]

HasValue(sub) == sub.value # <<>>

\* a slip: the call is settled by the first values, not by all
SettleOnFirst(call) ==
  IF \E i \in 1..Len(call.subs) : call.subs[i].st = "rejected"
  THEN [call EXCEPT !.status = "rejected"]
  ELSE IF \E i \in 1..Len(call.subs) : call.subs[i].st \in {"hit", "done"}
  THEN [call EXCEPT !.status = "resolved",
                    !.result = PromiseAll(SelectSeq(call.subs, HasValue))]
  ELSE [call EXCEPT !.status = "pending"]

\* the state of the promise an exported function returned
Settle(call) ==
  IF \E i \in 1..Len(call.subs) : call.subs[i].st = "rejected"
  THEN [call EXCEPT !.status = "rejected"]
  ELSE IF \A i \in 1..Len(call.subs) : call.subs[i].st \in {"hit", "done"}
  THEN [call EXCEPT !.status = "resolved", !.result = PromiseAll(call.subs)]
  ELSE [call EXCEPT !.status = "pending"]

IsPending(call) == call.status = "pending"

Pending == SelectSeq(calls, IsPending)

\* the (date, language) pairs with a request in flight
InFlight ==
  UNION {{<<calls[c].subs[i].date, calls[c].language>> :
            i \in {i \in 1..Len(calls[c].subs) : calls[c].subs[i].st = "wait"}} :
         c \in {c \in 1..Len(calls) : calls[c].status = "pending"}}

\* one getDayMenu(date, language) of dates.map(...), run up to its first await
\* what a getDayMenu whose synchronous part came out as s adds to acc
Started(s, language, acc) ==
  LET key == getDayCacheKey(s.formattedDate, language)
      overlap == \/ <<s.formattedDate, language>> \in InFlight
                 \/ \E j \in 1..Len(acc.subs) :
                      acc.subs[j].st = "wait" /\ acc.subs[j].date = s.formattedDate
      sub == [date |-> s.formattedDate,
              st |-> IF s.hit THEN "hit" ELSE "wait",
              failed |-> FALSE,
              value |-> s.value,
              order |-> 0,
              at |-> now]
      lookup == [date |-> s.formattedDate,
                 language |-> language,
                 value |-> s.value,
                 requests |-> IF s.hit THEN 0 ELSE 1,
                 overlap |-> overlap,
                 prevReq |-> MapGet(acc.req, key),
                 failBefore |-> IF MapHas(lastFail, key) THEN <<lastFail[key].t>>
                               ELSE <<>>,
                 memBefore |-> MapGet(acc.mem, key),
                 lsBefore |-> MapGet(acc.ls, key),
                 memAfter |-> MapGet(s.mem, key),
                 lsAfter |-> MapGet(s.ls, key),
                 othersSame |-> /\ MapDelete(s.mem, key) = MapDelete(acc.mem, key)
                                /\ MapDelete(s.ls, key) = MapDelete(acc.ls, key)]
  IN  [mem |-> s.mem, ls |-> s.ls, subs |-> Append(acc.subs, sub),
       looks |-> Append(acc.looks, lookup),
       req |-> IF s.hit THEN acc.req ELSE MapSet(acc.req, key, now)]

StartOne(date, language, acc) ==
  Started(getDayMenuStart(date, language, acc.mem, acc.ls, now), language, acc)

RECURSIVE StartAll(_, _, _)
StartAll(dates, language, acc) ==
  IF Len(acc.subs) = Len(dates) THEN acc
  ELSE StartAll(dates, language,
                StartOne(dates[Len(acc.subs) + 1], language, acc))

\* the number of network requests the getDayMenu executions subs await
Requests(subs) == Cardinality({i \in 1..Len(subs) : subs[i].st = "wait"})

\* the call is under way with r, what its getDayMenu executions did before
\* their await
StartedAll(fn, language, r) ==
  /\ Len(Pending) < MaxPending
  /\ nfetches + Requests(r.subs) <= MaxFetches
  /\ nfetches' = nfetches + Requests(r.subs)
  /\ lookups' = r.looks
  /\ memoryCache' = r.mem
  /\ localStorage' = r.ls
  /\ lastReq' = r.req
  /\ calls' = Append(Pending, Settle([status |-> "pending", fn |-> fn,
                                     language |-> language,
                                     subs |-> r.subs, result |-> <<>>]))
  /\ UNCHANGED <<now, lastFail, storageFull, hostShift, nreloads, dateOp, serverCache, handlers, proxyOp, page,
                  cacheOp,
                 lastSet, nsets>>

StartCall(fn, language, dates) ==
  StartedAll(fn, language,
              StartAll(dates, language,
                       [mem |-> memoryCache, ls |-> localStorage,
                        subs |-> <<>>, looks |-> <<>>, req |-> lastReq]))

\* the Date arguments of the calls of the fetch specification: times of Friday,
\* January 19 on the host's calendar, which is on Seoul's day or a day behind it
CallDates == {[day |-> 19, kstShift |-> hostShift]}

CallDay ==
  \E date \in CallDates, language \in CallLanguages :
    StartCall("getDayMenu", language, <<date>>)

CallCentered ==
  \E centerDate \in CallDates, daysBefore \in 0..MaxSpan, language \in CallLanguages :
    \E daysAfter \in 0..(MaxSpan - daysBefore) :
      StartCall("getCenteredMenu", language,
                CenteredDates(centerDate, daysBefore, daysAfter))

CallAdditional ==
  \E referenceDate \in CallDates, direction \in {"before", "after"},
     count \in 1..MaxSpan, language \in CallLanguages :
    StartCall("getAdditionalDays", language,
              AdditionalDates(referenceDate, direction, count))

\* the request failed: no response, a status that is not ok, a body that is not
\* JSON, or a body without the properties of a menu
FetchFailed(response) ==
  response.kind # "ok" \/ isMenuEmptyThrows(response.body)

\* the response of the request of the i-th getDayMenu of call c arrives
Respond ==
  \E c \in 1..Len(calls) :
    /\ calls[c].status = "pending"
    /\ \E i \in 1..Len(calls[c].subs) :
         /\ calls[c].subs[i].st = "wait"
         /\ \E response \in Responses(calls[c].subs[i].date, calls[c].language) :
              /\ LET sub == calls[c].subs[i]
                     r == getDayMenuResume(sub.date, calls[c].language, response,
                                           memoryCache, localStorage, now,
                                           storageFull, storageFull)
                     key == getDayCacheKey(sub.date, calls[c].language)
                     settled == Cardinality({j \in 1..Len(calls[c].subs) :
                                               calls[c].subs[j].st \in {"done", "rejected"}})
                     sub1 == [sub EXCEPT !.st = IF r.rejected THEN "rejected" ELSE "done",
                                         !.failed = FetchFailed(response),
                                         !.value = <<r.value>>,
                                         !.order = settled + 1]
                     call1 == Settle([calls[c] EXCEPT !.subs[i] = sub1])
                 IN  /\ memoryCache' = r.mem
                     /\ localStorage' = r.ls
                     /\ lastFail' =
                          IF FetchFailed(response)
                          THEN MapSet(lastFail, key,
                                      [t |-> now, at |-> sub.at,
                                       prevAt |-> IF MapHas(lastFail, key)
                                                  THEN <<lastFail[key].at>>
                                                  ELSE <<>>])
                          ELSE lastFail
                     /\ calls' = SelectSeq([calls EXCEPT ![c] = call1 ], IsPending)
                                   \o (IF IsPending(call1) THEN <<>> ELSE <<call1>>)
                     /\ page' = fetchMenuResume(page, call1)
    /\ lookups' = <<>>
    /\ UNCHANGED <<now, lastReq, nfetches, storageFull, hostShift, nreloads, dateOp, serverCache, handlers, proxyOp,
                   cacheOp, lastSet, nsets>>

\* time passes: Date.now() moves on by an hour
Tick ==
  /\ now < MaxTicks * HOUR
  /\ now' = now + HOUR
  /\ calls' = Pending
  /\ lookups' = <<>>
  /\ UNCHANGED <<memoryCache, localStorage, lastReq, lastFail,
                 nfetches, storageFull, hostShift, nreloads, dateOp, serverCache, handlers, proxyOp, page,
                  cacheOp,
                 lastSet, nsets>>

\* the page is loaded again: the module is initialised anew (memoryCache = new Map()),
\* the promises of the old page are gone, localStorage stays
Reload ==
  /\ nreloads < MaxReloads
  /\ nreloads' = nreloads + 1
  /\ memoryCache' = EmptyMap
  /\ lastFail' = EmptyMap
  /\ lastReq' = EmptyMap
  /\ lastSet' = EmptyMap
  /\ calls' = <<>>
  /\ lookups' = <<>>
  /\ page' = NoPage
  /\ UNCHANGED <<now, localStorage, nfetches, storageFull, hostShift, dateOp, serverCache, handlers, proxyOp,
                 cacheOp, nsets>>

NoDateOp ==
  [fn |-> "none", date |-> [day |-> FirstDay, kstShift |-> 0], direction |-> "",
   before |-> 0, after |-> 0, out |-> <<>>]

NoCacheOp ==
  [op |-> "none", date |-> 0, language |-> "", t |-> 0, threw |-> FALSE,
   data |-> <<>>, full1 |-> FALSE, full2 |-> FALSE, memBefore |-> <<>>, lsBefore |-> <<>>,
   memAfter |-> <<>>, lsAfter |-> <<>>]

\* proxyOp when the last step was no step of the proxy route
NoProxyOp ==
  [op |-> "none", key |-> <<0, "">>, status |-> 0, body |-> <<>>, contacted |-> FALSE,
   failed |-> FALSE, cached |-> <<>>, stored |-> <<>>]

Init ==
  /\ now = 0
  /\ memoryCache = EmptyMap
  /\ localStorage = EmptyMap
  /\ calls = <<>>
  /\ lookups = <<>>
  /\ lastReq = EmptyMap
  /\ lastFail = EmptyMap
  /\ nfetches = 0
  /\ storageFull \in BOOLEAN
  /\ hostShift \in {0, 1}
  /\ nsets = 0
  /\ nreloads = 0
  /\ dateOp = NoDateOp
  /\ serverCache = EmptyMap
  /\ handlers = <<>>
  /\ proxyOp = NoProxyOp
  /\ page = NoPage
  /\ cacheOp = NoCacheOp
  /\ lastSet = EmptyMap

Next ==
  \/ CallDay
  \/ CallCentered
  \/ CallAdditional
  \/ Respond
  \/ Tick
  \/ Reload

Spec == Init /\ [][Next]_vars

(***************************************************************************)
(* The date specification: the date utilities applied to bounded inputs    *)
(***************************************************************************)
DateOp(fn, date, direction, before, after, out) ==
  [fn |-> fn, date |-> date, direction |-> direction, before |-> before,
   after |-> after, out |-> out]

NotDateVars ==
  <<now, memoryCache, localStorage, calls, lookups, lastReq, lastFail, nfetches,
    storageFull, hostShift, nreloads, cacheOp, lastSet, nsets,
    serverCache, handlers, proxyOp, page>>

DoNearestWeekday ==
  \E date \in Dates, direction \in {"forward", "backward"} :
    /\ dateOp' = DateOp("getNearestWeekday", date, direction, 0, 0,
                        <<getNearestWeekday(date, direction)>>)
    /\ UNCHANGED NotDateVars

DoWeekdaysBefore ==
  \E date \in Dates, count \in 0..MaxCount :
    /\ dateOp' = DateOp("getWeekdaysBefore", date, "", count, 0,
                        getWeekdaysBefore(date, count))
    /\ UNCHANGED NotDateVars

DoWeekdaysAfter ==
  \E date \in Dates, count \in 0..MaxCount :
    /\ dateOp' = DateOp("getWeekdaysAfter", date, "", 0, count,
                        getWeekdaysAfter(date, count))
    /\ UNCHANGED NotDateVars

DoCenteredDates ==
  \E centerDate \in Dates, daysBefore \in 0..MaxCount, daysAfter \in 0..MaxCount :
    /\ dateOp' = DateOp("getCenteredMenu", centerDate, "", daysBefore, daysAfter,
                        CenteredDates(centerDate, daysBefore, daysAfter))
    /\ UNCHANGED NotDateVars

DoAdditionalDates ==
  \E referenceDate \in Dates, direction \in {"before", "after"}, count \in 0..MaxCount :
    /\ dateOp' = DateOp("getAdditionalDays", referenceDate, direction,
                        IF direction = "before" THEN count ELSE 0,
                        IF direction = "after" THEN count ELSE 0,
                        AdditionalDates(referenceDate, direction, count))
    /\ UNCHANGED NotDateVars

\* getWeeklyMenu(date, language) is getCenteredMenu(date, 2, 2, language)
DoWeeklyDates ==
  \E date \in Dates :
    /\ dateOp' = DateOp("getWeeklyMenu", date, "", 2, 2, CenteredDates(date, 2, 2))
    /\ UNCHANGED NotDateVars

NextDates ==
  \/ DoNearestWeekday
  \/ DoWeekdaysBefore
  \/ DoWeekdaysAfter
  \/ DoCenteredDates
  \/ DoAdditionalDates
  \/ DoWeeklyDates

InitDates == Init /\ ~storageFull /\ hostShift = 0

SpecDates == InitDates /\ [][NextDates]_vars

(***************************************************************************)
(* The cache specification: setToDayCache and getFromDayCache called        *)
(* directly, at any time, for a few keys                                    *)
(***************************************************************************)
CacheDates == {20240119, 20240122}

CacheLanguages == {"en", "ko"}

NotCacheVars ==
  <<calls, lookups, lastReq, lastFail, nfetches, storageFull, hostShift, nreloads,
    dateOp, serverCache, handlers, proxyOp, page>>

CacheSet ==
  \E date \in CacheDates, language \in CacheLanguages,
     full1 \in BOOLEAN, full2 \in BOOLEAN :
    \E data \in Bodies(date, language) :
      LET key == getDayCacheKey(date, language)
          r == setToDayCache(date, language, data, memoryCache, localStorage, now,
                             full1, full2)
      IN  /\ nsets < MaxSets
          /\ full2 => full1
          /\ nsets' = nsets + 1
          /\ memoryCache' = r.mem
          /\ localStorage' = r.ls
          /\ lastSet' = IF r.threw THEN lastSet
                        ELSE MapSet(lastSet, key,
                                    [data |-> data, t |-> now,
                                     stored |-> MapHas(r.ls, key)])
          /\ cacheOp' = [op |-> "set", date |-> date, language |-> language,
                         t |-> now, threw |-> r.threw, data |-> <<data>>,
                         full1 |-> full1, full2 |-> full2,
                         memBefore |-> MapGet(memoryCache, key),
                         lsBefore |-> MapGet(localStorage, key),
                         memAfter |-> MapGet(r.mem, key),
                         lsAfter |-> MapGet(r.ls, key)]
          /\ UNCHANGED <<now>>
          /\ UNCHANGED NotCacheVars

CacheGet ==
  \E date \in CacheDates, language \in CacheLanguages :
    LET key == getDayCacheKey(date, language)
        r == getFromDayCache(date, language, memoryCache, localStorage, now)
    IN  /\ memoryCache' = r.mem
        /\ localStorage' = r.ls
        /\ cacheOp' = [op |-> "get", date |-> date, language |-> language,
                       t |-> now, threw |-> FALSE, data |-> r.data,
                       full1 |-> FALSE, full2 |-> FALSE,
                       memBefore |-> MapGet(memoryCache, key),
                       lsBefore |-> MapGet(localStorage, key),
                       memAfter |-> MapGet(r.mem, key),
                       lsAfter |-> MapGet(r.ls, key)]
        /\ UNCHANGED <<now, lastSet, nsets>>
        /\ UNCHANGED NotCacheVars

\* the clock readings of the cache specification: around both cache durations
ClockValues ==
  {h * HOUR : h \in {h \in 0..MaxCacheHours : h <= 2 \/ h >= 6}}

CacheTick ==
  /\ now' \in {t \in ClockValues : t > now}
  /\ UNCHANGED <<memoryCache, localStorage, cacheOp, lastSet, nsets>>
  /\ UNCHANGED NotCacheVars

NextCache ==
  \/ CacheSet
  \/ CacheGet
  \/ CacheTick
  \/ Reload

InitCache == Init /\ ~storageFull /\ hostShift = 0

SpecCache == InitCache /\ [][NextCache]_vars

(***************************************************************************)
(* The specification of the tiers: getDayMenu calls in a browser whose      *)
(* localStorage holds what earlier visits left (the language preference,    *)
(* yesterday's menu, possibly a value under today's key that is not JSON)   *)
(* and fills up at some moment                                              *)
(***************************************************************************)
\* the preference as handleLanguageChange stores it: a text such as en, which
\* is not the JSON of a cache entry
LanguageText == [json |-> FALSE, val |-> Entry(GarbageBody, 0, FALSE)]

\* the key of the menu of Thursday, January 18
OldKey == getDayCacheKey(format(18), "en")

\* localStorage as earlier visits left it
StorageLeft(corrupted) ==
  [k \in {LANGUAGE_STORAGE_KEY, OldKey}
          \cup (IF corrupted THEN {getDayCacheKey(format(19), "en")} ELSE {}) |->
     IF k = LANGUAGE_STORAGE_KEY THEN LanguageText
     ELSE IF k = OldKey
     THEN JSONstringify(Entry(FullMenu(format(18), "en"), 0, FALSE))
     ELSE CorruptText]

\* other writes to the origin's localStorage use up the quota: from now on
\* setItem throws
StorageFills ==
  /\ ~storageFull
  /\ storageFull' = TRUE
  /\ calls' = Pending
  /\ lookups' = <<>>
  /\ UNCHANGED <<now, memoryCache, localStorage, lastReq, lastFail, nfetches,
                 hostShift, nreloads, dateOp, serverCache, handlers, proxyOp, page,
                  cacheOp, lastSet, nsets>>

InitTiers ==
  /\ now = 0
  /\ memoryCache = EmptyMap
  /\ localStorage \in {StorageLeft(corrupted) : corrupted \in BOOLEAN}
  /\ calls = <<>>
  /\ lookups = <<>>
  /\ lastReq = EmptyMap
  /\ lastFail = EmptyMap
  /\ nfetches = 0
  /\ storageFull = FALSE
  /\ hostShift = 0
  /\ nsets = 0
  /\ nreloads = 0
  /\ dateOp = NoDateOp
  /\ serverCache = EmptyMap
  /\ handlers = <<>>
  /\ proxyOp = NoProxyOp
  /\ page = NoPage
  /\ cacheOp = NoCacheOp
  /\ lastSet = EmptyMap

NextTiers ==
  \/ CallDay
  \/ Respond
  \/ Tick
  \/ StorageFills
  \/ Reload

SpecTiers == InitTiers /\ [][NextTiers]_vars

(***************************************************************************)
(* The proxy route GET /api/menu/[date] (route handler with serverCache)    *)
(*                                                                         *)
(* handlers holds the GET handlers that await the remote API, each with its *)
(* cacheKey and the Date.now() it read on entry.  proxyOp describes what    *)
(* the last step of the route did.                                          *)
(***************************************************************************)
\* CACHE_DURATION and EMPTY_CACHE_DURATION of the route
SERVER_CACHE_DURATION == 6 * 60 * 60 * 1000

SERVER_EMPTY_CACHE_DURATION == 1 * 60 * 60 * 1000

\* the cacheKey `${date}-${lang}` of the requests of the proxy specification
ProxyKeys == {<<format(19), "en">>, <<format(22), "en">>}

\* a 200 body null
NullBody == [GarbageBody EXCEPT !.language = "null"]

\* what the remote API answers: as for the client, and the body null
ProxyResponses(key) == Responses(key[1], key[2]) \cup {[kind |-> "ok", body |-> NullBody]}

\* isMenuEmpty of the route: reading a property of null throws
serverIsMenuEmptyThrows(data) == data = NullBody

\* isMenuEmpty of the route: a missing lunch or dinner counts as empty
serverIsMenuEmpty(data) ==
  /\ "lunch" \notin data.fields \/ data.lunch = 0
  /\ "dinner" \notin data.fields \/ data.dinner = 0
  /\ ~data.salad
  /\ ~data.dessert

\* a slip: < for <=
serverCacheFreshStrict(cached, t) ==
  t - cached.timestamp <
    (IF cached.isEmpty THEN SERVER_EMPTY_CACHE_DURATION ELSE SERVER_CACHE_DURATION)

\* now - cached.timestamp <= duration
serverCacheFresh(cached, t) ==
  t - cached.timestamp <=
    (IF cached.isEmpty THEN SERVER_EMPTY_CACHE_DURATION ELSE SERVER_CACHE_DURATION)

cleanupCache(cache, t) ==
  [k \in {x \in DOMAIN cache :
            ~(t - cache[x].timestamp >
                (IF cache[x].isEmpty THEN SERVER_EMPTY_CACHE_DURATION
                 ELSE SERVER_CACHE_DURATION))} |-> cache[k]]

ProxyOp(op, key, status, body, contacted, failed, cached, stored) ==
  [op |-> op, key |-> key, status |-> status, body |-> body, contacted |-> contacted,
   failed |-> failed, cached |-> cached, stored |-> stored]

NotProxyVars ==
  <<memoryCache, localStorage, calls, lookups, lastReq, lastFail, storageFull,
    hostShift, nreloads, dateOp, cacheOp, lastSet, nsets, page>>

\* GET up to the await of fetch: answered from serverCache, or the expired
\* entry deleted and the remote API fetched
GETStart ==
  \E key \in ProxyKeys :
    IF MapHas(serverCache, key) /\ serverCacheFresh(serverCache[key], now)
    THEN /\ proxyOp' = ProxyOp("GET", key, 200, <<serverCache[key].data>>, FALSE,
                                FALSE, MapGet(serverCache, key), <<>>)
         /\ UNCHANGED <<now, serverCache, handlers, nfetches>>
         /\ UNCHANGED NotProxyVars
    ELSE /\ nfetches < MaxProxyFetches
         /\ Len(handlers) < MaxHandlers
         /\ nfetches' = nfetches + 1
         /\ serverCache' = MapDelete(serverCache, key)
         /\ handlers' = Append(handlers, [key |-> key, now |-> now])
         /\ proxyOp' = ProxyOp("GET", key, 0, <<>>, TRUE, FALSE,
                                MapGet(serverCache, key), <<>>)
         /\ UNCHANGED <<now>>
         /\ UNCHANGED NotProxyVars

\* the handlers without the i-th
WithoutHandler(i) == [j \in 1..Len(handlers) - 1 |-> handlers[IF j < i THEN j ELSE j + 1]]

\* GET from the settling of fetch on; cleanup: whether Math.random() < 0.01
GETResume ==
  \E i \in 1..Len(handlers), cleanup \in BOOLEAN :
    \E response \in ProxyResponses(handlers[i].key) :
      /\ handlers' = WithoutHandler(i)
      /\ IF response.kind # "ok" \/ serverIsMenuEmptyThrows(response.body)
         THEN /\ proxyOp' = ProxyOp("response", handlers[i].key, 500, <<>>, TRUE,
                                     TRUE, MapGet(serverCache, handlers[i].key), <<>>)
              /\ UNCHANGED serverCache
         ELSE /\ proxyOp' = ProxyOp("response", handlers[i].key, 200,
                                     <<response.body>>, TRUE, FALSE,
                                     MapGet(serverCache, handlers[i].key),
                                     <<Entry(response.body, handlers[i].now,
                                             serverIsMenuEmpty(response.body))>>)
              /\ serverCache' =
                   IF cleanup
                   THEN cleanupCache(MapSet(serverCache, handlers[i].key,
                                            Entry(response.body, handlers[i].now,
                                                  serverIsMenuEmpty(response.body))),
                                     now)
                   ELSE MapSet(serverCache, handlers[i].key,
                               Entry(response.body, handlers[i].now,
                                     serverIsMenuEmpty(response.body)))
      /\ UNCHANGED <<now, nfetches>>
      /\ UNCHANGED NotProxyVars

\* time passes on the server
ProxyTick ==
  /\ now' \in {t \in ClockValues : t > now}
  /\ proxyOp' = NoProxyOp
  /\ UNCHANGED <<serverCache, handlers, nfetches>>
  /\ UNCHANGED NotProxyVars

NextProxy ==
  \/ GETStart
  \/ GETResume
  \/ ProxyTick

InitProxy == Init /\ ~storageFull /\ hostShift = 0

SpecProxy == InitProxy /\ [][NextProxy]_vars

(***************************************************************************)
(* The fetch specification under the assumption that every request is       *)
(* answered: the range functions are called, time passes, and a request     *)
(* that is awaited does not wait for ever                                   *)
(***************************************************************************)
NextAnswered ==
  \/ CallCentered
  \/ CallAdditional
  \/ Respond
  \/ Tick

SpecAnswered == InitProxy /\ [][NextAnswered]_vars /\ WF_vars(Respond)

(***************************************************************************)
(* The page (Home): the language preference, the fetchMenu effect and what  *)
(* it displays                                                              *)
(*                                                                         *)
(* A visitor returns on Friday, January 19: localStorage holds the menus of *)
(* Wednesday to Monday in two languages, and the language preference or     *)
(* not.  A fetchMenu is a call in calls with fn "fetchMenu".  A setLanguage  *)
(* with a new value and the run of the effect that depends on it are one    *)
(* step: React runs the effect before it handles the next event.            *)
(***************************************************************************)
PageLanguages == {"en", "ko"}

\* the text of a language under LANGUAGE_STORAGE_KEY
LanguageItem(lang) ==
  [json |-> FALSE, val |-> Entry([GarbageBody EXCEPT !.language = lang], 0, FALSE)]

\* the days whose menus the earlier visit left in localStorage
PageDays == {17, 18, 19, 22}

PageStorage(saved) ==
  [k \in {getDayCacheKey(format(d), lang) : d \in PageDays, lang \in PageLanguages}
          \cup (IF saved = "" THEN {} ELSE {LANGUAGE_STORAGE_KEY}) |->
     IF k = LANGUAGE_STORAGE_KEY THEN LanguageItem(saved)
     ELSE JSONstringify(Entry(FullMenu(k[2], k[3]), 0, FALSE))]

\* the effect on [language]: fetchMenu up to its await, with r what the
\* getDayMenu executions of getCenteredMenu(new Date(), 2, 2, language) did
\* before their await, and p the page the effect runs on
fetchMenuStarted(language, p, r) ==
  /\ Len(Pending) < MaxPending
  /\ nfetches + Requests(r.subs) <= MaxPageFetches
  /\ nfetches' = nfetches + Requests(r.subs)
  /\ lookups' = r.looks
  /\ memoryCache' = r.mem
  /\ localStorage' = r.ls
  /\ lastReq' = r.req
  /\ calls' = Append(Pending, Settle([status |-> "pending", fn |-> "fetchMenu",
                                     language |-> language,
                                     subs |-> r.subs, result |-> <<>>]))
  /\ page' = fetchMenuResume([p EXCEPT !.isLoading = TRUE, !.error = FALSE],
                              Settle([status |-> "pending", fn |-> "fetchMenu",
                                      language |-> language,
                                      subs |-> r.subs, result |-> <<>>]))

fetchMenu(language, p, ls) ==
  \E date \in CallDates :
    fetchMenuStarted(language, p,
                     StartAll(CenteredDates(date, 2, 2), language,
                              [mem |-> memoryCache, ls |-> ls,
                               subs |-> <<>>, looks |-> <<>>, req |-> lastReq]))

NotPageVars ==
  <<now, lastFail, storageFull, hostShift, nreloads, dateOp, cacheOp, lastSet, nsets,
    serverCache, handlers, proxyOp>>

\* the effect on mount: the saved language is taken, or the modal is shown
PageMount ==
  /\ ~page.isInitialized
  /\ IF /\ MapHas(localStorage, LANGUAGE_STORAGE_KEY)
        /\ localStorage[LANGUAGE_STORAGE_KEY].val.data.language \in Languages
     THEN /\ fetchMenu(localStorage[LANGUAGE_STORAGE_KEY].val.data.language,
                       [page EXCEPT !.isInitialized = TRUE,
                                    !.language =
                                      localStorage[LANGUAGE_STORAGE_KEY].val.data.language],
                       localStorage)
     ELSE /\ page' = [page EXCEPT !.isInitialized = TRUE, !.showLanguageModal = TRUE]
          /\ calls' = Pending
          /\ lookups' = <<>>
          /\ UNCHANGED <<memoryCache, localStorage, lastReq, nfetches>>
  /\ UNCHANGED NotPageVars

handleLanguageSelect ==
  \E lang \in PageLanguages :
    /\ page.isInitialized
    /\ page.showLanguageModal
    /\ fetchMenu(lang, [page EXCEPT !.language = lang, !.showLanguageModal = FALSE],
                 MapSet(localStorage, LANGUAGE_STORAGE_KEY, LanguageItem(lang)))
    /\ UNCHANGED NotPageVars

\* the header's dropdown; a setLanguage with the value it has runs no effect
handleLanguageChange ==
  \E lang \in PageLanguages :
    /\ page.isInitialized
    /\ ~page.showLanguageModal
    /\ page.language # ""
    /\ ~page.error
    /\ IF lang # page.language
       THEN fetchMenu(lang, [page EXCEPT !.language = lang],
                      MapSet(localStorage, LANGUAGE_STORAGE_KEY, LanguageItem(lang)))
       ELSE /\ localStorage' =
                 MapSet(localStorage, LANGUAGE_STORAGE_KEY, LanguageItem(lang))
            /\ calls' = Pending
            /\ lookups' = <<>>
            /\ UNCHANGED <<memoryCache, lastReq, nfetches, page>>
    /\ UNCHANGED NotPageVars

InitPage ==
  /\ now = 0
  /\ memoryCache = EmptyMap
  /\ localStorage \in {PageStorage(saved) : saved \in {"", "en"}}
  /\ calls = <<>>
  /\ lookups = <<>>
  /\ lastReq = EmptyMap
  /\ lastFail = EmptyMap
  /\ nfetches = 0
  /\ storageFull = FALSE
  /\ hostShift = 0
  /\ nsets = 0
  /\ nreloads = 0
  /\ dateOp = NoDateOp
  /\ serverCache = EmptyMap
  /\ handlers = <<>>
  /\ proxyOp = NoProxyOp
  /\ page = NoPage
  /\ cacheOp = NoCacheOp
  /\ lastSet = EmptyMap

NextPage ==
  \/ PageMount
  \/ handleLanguageSelect
  \/ handleLanguageChange
  \/ Respond
  \/ Tick
  \/ Reload

SpecPage == InitPage /\ [][NextPage]_vars

(***************************************************************************)
(* Properties                                                              *)
(***************************************************************************)
\* the value has the required properties of the DayMenu type
IsDayMenu(menu) == RequiredFields \subseteq menu.fields

\* the getDayMenu executions of the calls in calls, as <<call, index>>
Subs == UNION {{<<c, i>> : i \in 1..Len(calls[c].subs)} : c \in 1..Len(calls)}

Aggregated == {"getCenteredMenu", "getAdditionalDays"}

\* C1: getDayMenu never rejects and always resolves to a DayMenu; when the fetch
\* failed the value is the placeholder for the requested date and language:
\* empty lunch and dinner, no salad, no dessert.
C1_AlwaysADayMenu ==
  \A p \in Subs :
    LET call == calls[p[1]]
        sub == call.subs[p[2]]
    IN  /\ sub.st # "rejected"
        /\ sub.st \in {"hit", "done"} => IsDayMenu(sub.value[1])
        /\ sub.st = "done" /\ sub.failed =>
             sub.value[1] = EmptyMenu(sub.date, call.language)

\* C2: a getCenteredMenu call never rejects, whatever fetches fail; when it
\* resolves, days has one entry per requested date, the entry of a date whose
\* fetch failed is the empty placeholder of that date, and every other entry is
\* the menu that date's own fetch or cache hit produced.
C2_FailureIsolation ==
  \A c \in 1..Len(calls) :
    calls[c].fn = "getCenteredMenu" =>
      /\ calls[c].status # "rejected"
      /\ calls[c].status = "resolved" =>
           /\ Len(calls[c].result) = Len(calls[c].subs)
           /\ \A i \in 1..Len(calls[c].subs) :
                LET sub == calls[c].subs[i]
                IN  /\ sub.st = "done" /\ sub.failed =>
                         calls[c].result[i] = EmptyMenu(sub.date, calls[c].language)
                    /\ ~(sub.st = "done" /\ sub.failed) =>
                         calls[c].result[i] = sub.value[1]

\* a centered call resolved with a failed fetch beside a fetched menu
C2_Witness ==
  \E c \in 1..Len(calls) :
    /\ calls[c].fn = "getCenteredMenu"
    /\ calls[c].status = "resolved"
    /\ Len(calls[c].subs) = 2
    /\ calls[c].subs[1].st = "done" /\ calls[c].subs[1].failed
    /\ calls[c].subs[2].st = "done" /\ ~calls[c].subs[2].failed
    /\ calls[c].result[2] = FullMenu(calls[c].subs[2].date, calls[c].language)

AfterFailure(l) ==
  /\ l.failBefore # <<>>
  /\ now - l.failBefore[1] <= EMPTY_CACHE_DURATION

\* C5 as claimed: a getDayMenu started within one hour of a failed fetch for the
\* same date and language returns the cached empty placeholder and issues no
\* network request.
C5_PlaceholderAfterFailure ==
  \A k \in 1..Len(lookups) :
    AfterFailure(lookups[k]) =>
      /\ lookups[k].requests = 0
      /\ lookups[k].value = <<EmptyMenu(lookups[k].date, lookups[k].language)>>

\* C6: of the network requests for one date and language that fail, no two
\* are issued within one hour of each other, whatever calls issue them,
\* calls for the same key that overlap in time included.
C6_OneFailedRequestPerWindow ==
  \A key \in DOMAIN lastFail :
    lastFail[key].prevAt # <<>> =>
      LET a == lastFail[key].at
          b == lastFail[key].prevAt[1]
      IN  (IF a > b THEN a - b ELSE b - a) > EMPTY_CACHE_DURATION

\* the entry is unexpired at the time of the lookup
Unexpired(entry, t) ==
  t - entry.timestamp <= (IF entry.isEmpty THEN EMPTY_CACHE_DURATION ELSE CACHE_DURATION)

MemoryFresh(l) == l.memBefore # <<>> /\ Unexpired(l.memBefore[1], now)

StorageFresh(l) ==
  l.lsBefore # <<>> /\ l.lsBefore[1].json /\ Unexpired(l.lsBefore[1].val, now)

\* the data of the entry a lookup hits: the memory tier's, else localStorage's
HitData(l) ==
  IF MemoryFresh(l) THEN l.memBefore[1].data ELSE l.lsBefore[1].val.data

\* C7 as claimed: a getDayMenu that finds an unexpired entry in either tier
\* returns its data, issues no network request and writes to neither tier; one
\* that finds none issues exactly one network request.
C7_HitWritesNothing ==
  \A k \in 1..Len(lookups) :
    LET l == lookups[k]
    IN  IF MemoryFresh(l) \/ StorageFresh(l)
        THEN /\ l.value = <<HitData(l)>>
             /\ l.requests = 0
             /\ l.memAfter = l.memBefore
             /\ l.lsAfter = l.lsBefore
             /\ l.othersSame
        ELSE l.requests = 1

\* C7 as amended: a getDayMenu that finds an unexpired entry in either tier
\* returns its data, issues no network request, leaves localStorage and the
\* entries of the other keys alone, and writes the memory tier only to copy
\* the entry it found in localStorage, unchanged; one that finds none issues
\* exactly one network request.
C7_HitWritesOnlyPromotion ==
  \A k \in 1..Len(lookups) :
    LET l == lookups[k]
    IN  IF MemoryFresh(l) \/ StorageFresh(l)
        THEN /\ l.value = <<HitData(l)>>
             /\ l.requests = 0
             /\ l.lsAfter = l.lsBefore
             /\ l.othersSame
             /\ IF MemoryFresh(l) THEN l.memAfter = l.memBefore
                ELSE l.memAfter = <<l.lsBefore[1].val>>
        ELSE l.requests = 1

\* a getDayMenu served from localStorage an hour or more after the entry was written
C7_Witness ==
  \E k \in 1..Len(lookups) :
    /\ ~MemoryFresh(lookups[k])
    /\ StorageFresh(lookups[k])
    /\ lookups[k].requests = 0
    /\ lookups[k].lsBefore[1].val.timestamp < now
    /\ lookups[k].memAfter = <<lookups[k].lsBefore[1].val>>

\* C10: every date of a request URL and of a cache key of either tier is a
\* Monday-to-Friday date of the Asia/Seoul calendar.
C10_OnlyWeekdayKeys ==
  \A key \in DOMAIN lastReq \cup DOMAIN memoryCache \cup DOMAIN localStorage :
    startsWithMenuDay(key) => IsWeekdayKey(key[2])

\* C3: the dates getCenteredMenu requests are daysBefore + 1 + daysAfter many,
\* strictly ascending (so without duplicates) and none is a Saturday or Sunday.
C3_CenteredDatesShape ==
  dateOp.fn = "getCenteredMenu" =>
    LET requested == [i \in 1..Len(dateOp.out) |-> formatKST(dateOp.out[i])]
    IN  /\ Len(requested) = dateOp.before + 1 + dateOp.after
        /\ \A i, j \in 1..Len(requested) : i < j => requested[i] < requested[j]
        /\ \A i \in 1..Len(requested) : IsWeekdayKey(requested[i])

\* the last get is for a key set earlier in this page session, within the
\* duration of what was set
GetAfterSet ==
  /\ cacheOp.op = "get"
  /\ MapHas(lastSet, getDayCacheKey(cacheOp.date, cacheOp.language))
  /\ LET set == lastSet[getDayCacheKey(cacheOp.date, cacheOp.language)]
     IN  cacheOp.t - set.t <= Duration(isMenuEmpty(set.data))

\* C8: getFromDayCache after setToDayCache for the same date and language,
\* before the duration of the entry has elapsed, returns the data that was set,
\* whether or not the write to localStorage succeeded.
C8_RoundTrip ==
  GetAfterSet =>
    cacheOp.data = <<lastSet[getDayCacheKey(cacheOp.date, cacheOp.language)].data>>

\* a get, some time after a set whose write to localStorage failed, returned the data
C8_Witness ==
  /\ GetAfterSet
  /\ LET set == lastSet[getDayCacheKey(cacheOp.date, cacheOp.language)]
     IN  /\ ~set.stored
         /\ cacheOp.t > set.t
         /\ cacheOp.data = <<set.data>>

\* an entry with empty data is good for one hour, any other for six
FreshAt(entry, t) ==
  t - entry.timestamp <= (IF isMenuEmpty(entry.data) THEN 1 * HOUR ELSE 6 * HOUR)

\* C9: in the memory tier and in localStorage alike, an entry with empty data is
\* a hit up to one hour after its timestamp and a miss later; an entry with
\* other data is a hit up to six hours after its timestamp and a miss later.
C9_ExpiryAsymmetry ==
  cacheOp.op = "get" =>
    LET m == cacheOp.memBefore
        l == cacheOp.lsBefore
    IN  cacheOp.data =
          IF m # <<>> /\ FreshAt(m[1], cacheOp.t) THEN <<m[1].data>>
          ELSE IF l # <<>> /\ l[1].json /\ FreshAt(l[1].val, cacheOp.t)
          THEN <<l[1].val.data>>
          ELSE <<>>

\* a get missed on an empty entry two hours old while a non-empty entry of the
\* same age is still held for another key
C9_Witness ==
  /\ cacheOp.op = "get"
  /\ cacheOp.data = <<>>
  /\ cacheOp.memBefore # <<>>
  /\ isMenuEmpty(cacheOp.memBefore[1].data)
  /\ cacheOp.t - cacheOp.memBefore[1].timestamp = 2 * HOUR
  /\ \E key \in DOMAIN memoryCache :
       /\ ~isMenuEmpty(memoryCache[key].data)
       /\ memoryCache[key].timestamp = cacheOp.memBefore[1].timestamp

\* the calendar days of the host strictly between days a and b
Between(a, b) == {x \in FirstDay - 14..LastDay + 14 : (a < x /\ x < b) \/ (b < x /\ x < a)}

\* C11: getNearestWeekday(d, direction) takes at most two one-day steps and
\* returns a weekday: d itself when d is a weekday, otherwise the first weekday
\* from d in the direction, the Friday before for backward and the Monday
\* after for forward (days of the week as date-fns reads them off the Date).
C11_NearestWeekday ==
  dateOp.fn = "getNearestWeekday" =>
    LET d == dateOp.date
        r == dateOp.out[1]
    IN  /\ ~isWeekend(r)
        /\ r.kstShift = d.kstShift
        /\ Cardinality(Between(d.day, r.day)) <= 1
        /\ \A x \in Between(d.day, r.day) : x % 7 \in {0, 6}
        /\ ~isWeekend(d) => r = d
        /\ isWeekend(d) /\ dateOp.direction = "backward" =>
             r.day < d.day /\ r.day % 7 = 5
        /\ isWeekend(d) /\ dateOp.direction = "forward" =>
             r.day > d.day /\ r.day % 7 = 1

\* a Sunday was moved back two days to the Friday
C11_Witness ==
  /\ dateOp.fn = "getNearestWeekday"
  /\ dateOp.direction = "backward"
  /\ dateOp.date.day % 7 = 0
  /\ dateOp.out[1].day = dateOp.date.day - 2

\* the Dates are n weekdays in ascending order on one side of d, with every
\* weekday between them and d among them
NearestWeekdays(dates, d, n, before) ==
  /\ Len(dates) = n
  /\ \A i \in 1..Len(dates) :
       /\ ~isWeekend(dates[i])
       /\ dates[i].kstShift = d.kstShift
       /\ IF before THEN dates[i].day < d.day ELSE dates[i].day > d.day
       /\ \A j \in 1..Len(dates) : i < j => dates[i].day < dates[j].day
       /\ \A x \in Between(dates[i].day, d.day) :
            x % 7 \in 1..5 => \E j \in 1..Len(dates) : dates[j].day = x

\* C12: getWeekdaysBefore(d, n) returns exactly the n nearest weekdays strictly
\* before d, ascending, with no weekend date and no weekday left out;
\* getWeekdaysAfter(d, n) the n nearest weekdays strictly after d; n = 0
\* gives the empty sequence.
C12_WeekdaysBeforeAfter ==
  /\ dateOp.fn = "getWeekdaysBefore" =>
       NearestWeekdays(dateOp.out, dateOp.date, dateOp.before, TRUE)
  /\ dateOp.fn = "getWeekdaysAfter" =>
       NearestWeekdays(dateOp.out, dateOp.date, dateOp.after, FALSE)
  /\ dateOp.fn \in {"getWeekdaysBefore", "getWeekdaysAfter"}
       /\ dateOp.before + dateOp.after = 0 => dateOp.out = <<>>

\* three weekdays before a Tuesday: Thursday, Friday, and Monday past the weekend
C12_Witness ==
  /\ dateOp.fn = "getWeekdaysBefore"
  /\ dateOp.before = 3
  /\ dateOp.date.day % 7 = 2
  /\ Len(dateOp.out) = 3
  /\ dateOp.out[1].day = dateOp.date.day - 5
  /\ dateOp.out[3].day = dateOp.date.day - 1

\* C13: when the centerDate of getCenteredMenu is a Saturday or Sunday, the
\* center date requested is the Friday before it, the dates before are the
\* weekdays before that Friday and the dates after start at the Monday after
\* it: Saturday 2024-01-13 with daysBefore = 1 and daysAfter = 1 gives
\* 20240111, 20240112, 20240115.
C13_WeekendCenter ==
  dateOp.fn = "getCenteredMenu" /\ DayOfWeek(formatKST(dateOp.date)) \in {0, 6} =>
    LET requested == [i \in 1..Len(dateOp.out) |-> formatKST(dateOp.out[i])]
        center == requested[dateOp.before + 1]
    IN  /\ DayOfWeek(center) = 5
        /\ center < formatKST(dateOp.date)
        /\ formatKST(dateOp.date) - center <= 2
        /\ \A i \in 1..dateOp.before : IsWeekdayKey(requested[i]) /\ requested[i] < center
        /\ dateOp.after >= 1 => requested[dateOp.before + 2] = center + 3
        /\ formatKST(dateOp.date) = 20240113 /\ dateOp.before = 1 /\ dateOp.after = 1 =>
             requested = <<20240111, 20240112, 20240115>>

\* the localStorage keys with the menu cache prefix
MenuKeys(ls) == {k \in DOMAIN ls : k[1] = "menu-day-"}

\* removed is the first half, rounded up, of the menu keys of ls in ascending
\* sort order
OldestHalf(removed, ls) ==
  /\ removed \subseteq MenuKeys(ls)
  /\ 2 * Cardinality(removed) \in {Cardinality(MenuKeys(ls)), Cardinality(MenuKeys(ls)) + 1}
  /\ \A r \in removed : \A k \in MenuKeys(ls) \ removed : KeyBefore(r, k)

\* the step is setToDayCache(op.date, op.language, op.data[1]) as C14 describes it
SetAsClaimed(op) ==
  LET key == getDayCacheKey(op.date, op.language)
      entry == Entry(op.data[1], op.t, isMenuEmpty(op.data[1]))
      removed == DOMAIN localStorage \ (DOMAIN localStorage' \cup {key})
      evicted == IF key \in DOMAIN localStorage /\ key \notin DOMAIN localStorage'
                 THEN removed \cup {key} ELSE removed
  IN  /\ ~op.threw
      /\ memoryCache' = MapSet(memoryCache, key, entry)
      /\ ~op.full1 => localStorage' = MapSet(localStorage, key, JSONstringify(entry))
      /\ op.full1 /\ ~op.full2 =>
           \E half \in SUBSET MenuKeys(localStorage) :
             /\ OldestHalf(half, localStorage)
             /\ MenuKeys(localStorage) # {} => half # {}
             /\ localStorage' =
                  MapSet([k \in DOMAIN localStorage \ half |-> localStorage[k]],
                         key, JSONstringify(entry))
      /\ op.full1 /\ op.full2 =>
           /\ OldestHalf(evicted, localStorage)
           /\ localStorage' = [k \in DOMAIN localStorage \ evicted |-> localStorage[k]]

IsGetStep ==
  /\ cacheOp'.op = "get"
  /\ now' = now /\ nsets' = nsets /\ nreloads' = nreloads

\* the step is getFromDayCache(op.date, op.language) as C16 describes it
GetAsClaimed(op) ==
  LET key == getDayCacheKey(op.date, op.language)
      memExpired == MapHas(memoryCache, key) /\ ~Unexpired(memoryCache[key], now)
      memFresh == MapHas(memoryCache, key) /\ Unexpired(memoryCache[key], now)
      stored == MapHas(localStorage, key) /\ localStorage[key].json
      mem1 == MapDelete(memoryCache, key)
  IN  /\ memExpired /\ ~MapHas(memoryCache', key) => memoryCache' = mem1
      /\ memExpired /\ MapHas(memoryCache', key) =>
           stored /\ memoryCache' = MapSet(mem1, key, localStorage[key].val)
      /\ ~memFresh /\ stored /\ Unexpired(localStorage[key].val, now) =>
           /\ op.data = <<localStorage[key].val.data>>
           /\ memoryCache' = MapSet(memoryCache, key, localStorage[key].val)
           /\ localStorage' = localStorage
      /\ ~memFresh /\ stored /\ ~Unexpired(localStorage[key].val, now) =>
           /\ op.data = <<>>
           /\ localStorage' = MapDelete(localStorage, key)
           /\ memoryCache' = mem1
      /\ ~MapHas(memoryCache, key) /\ ~MapHas(localStorage, key) =>
           /\ op.data = <<>>
           /\ memoryCache' = memoryCache
           /\ localStorage' = localStorage

\* C16: in getFromDayCache an expired memory entry is deleted and the lookup
\* goes on to localStorage; an unexpired localStorage entry is copied into the
\* memory tier and returned; an expired one is removed from localStorage and
\* the result is a miss; a key in neither tier is a miss that changes neither.
C16_ReadPath ==
  [][IsGetStep => GetAsClaimed(cacheOp')]_vars

\* a get found the entry expired in both tiers, removed both and missed
C16_Witness ==
  /\ cacheOp.op = "get"
  /\ cacheOp.memBefore # <<>> /\ cacheOp.memAfter = <<>>
  /\ cacheOp.lsBefore # <<>> /\ cacheOp.lsAfter = <<>>
  /\ cacheOp.data = <<>>

\* C15: when localStorage holds a value that does not parse under a menu key,
\* getFromDayCache misses for the key and removes the value from localStorage.
C15_CorruptedEvicted ==
  \A k \in 1..Len(lookups) :
    lookups[k].lsBefore # <<>> /\ ~lookups[k].lsBefore[1].json =>
      /\ lookups[k].value = <<>>
      /\ lookups[k].lsAfter = <<>>

\* C17: whenever the memory tier and localStorage both hold an entry for a
\* key, the two entries have the same data, timestamp and isEmpty, after any
\* getDayMenu calls, failing localStorage writes included.
C17_TiersAgree ==
  \A key \in DOMAIN memoryCache \cap DOMAIN localStorage :
    localStorage[key].json => localStorage[key].val = memoryCache[key]

\* the step is a setToDayCache that ran clearOldMenuCache
IsEvictionStep ==
  /\ storageFull /\ storageFull'
  /\ nfetches' = nfetches /\ nreloads' = nreloads /\ now' = now
  /\ DOMAIN localStorage # DOMAIN localStorage'

\* C19: the eviction of clearOldMenuCache removes only localStorage keys that
\* start with menu-day-; every other key, the language preference among them,
\* keeps its value, and the memory tier is left as it is (but for the entry
\* setToDayCache itself writes).
C19_EvictionFrame ==
  [][IsEvictionStep =>
       /\ \A k \in DOMAIN localStorage :
            ~startsWithMenuDay(k) =>
              k \in DOMAIN localStorage' /\ localStorage'[k] = localStorage[k]
       /\ DOMAIN memoryCache \subseteq DOMAIN memoryCache'
       /\ Cardinality({k \in DOMAIN memoryCache' :
                         MapGet(memoryCache, k) # MapGet(memoryCache', k)}) <= 1
       /\ \A k \in DOMAIN memoryCache' :
            MapGet(memoryCache, k) # MapGet(memoryCache', k) =>
              memoryCache'[k].timestamp = now]_vars

\* yesterday's menu was evicted; the language preference and the memory tier
\* are still there
C19_Witness ==
  /\ storageFull
  /\ OldKey \notin DOMAIN localStorage
  /\ LANGUAGE_STORAGE_KEY \in DOMAIN localStorage
  /\ localStorage[LANGUAGE_STORAGE_KEY] = LanguageText
  /\ memoryCache # EmptyMap

\* the step is the arrival of a failed response for the key
FailsFor(key) ==
  /\ MapHas(lastFail', key)
  /\ MapGet(lastFail', key) # MapGet(lastFail, key)

\* C18: when getDayMenu calls for one date and language overlap, an unexpired
\* non-empty menu that one of them cached is never replaced by the empty
\* placeholder of another whose fetch failed, so that no later call within
\* the duration returns an empty menu for a date whose menu was fetched.
C18_MenuSurvivesFailure ==
  [][\A key \in DOMAIN memoryCache :
       /\ ~memoryCache[key].isEmpty
       /\ Unexpired(memoryCache[key], now)
       /\ FailsFor(key)
       => MapHas(memoryCache', key) /\ memoryCache'[key] = memoryCache[key]]_vars

\* what the claim says of a GET on its arrival: a fresh entry answers, an
\* expired one is deleted and the remote API fetched
ArrivalAsClaimed(op) ==
  /\ (MapHas(serverCache, op.key) /\ FreshAt(serverCache[op.key], now)) =>
       /\ op.status = 200
       /\ op.body = <<serverCache[op.key].data>>
       /\ ~op.contacted
       /\ serverCache' = serverCache
       /\ handlers' = handlers
       /\ nfetches' = nfetches
  /\ (MapHas(serverCache, op.key) /\ ~FreshAt(serverCache[op.key], now)) =>
       /\ op.contacted
       /\ ~MapHas(serverCache', op.key)
       /\ nfetches' = nfetches + 1

\* what the claim says of a GET once the remote API has answered: a failure
\* is a 500 that stores nothing, and an entry that disappears was expired
ResponseAsClaimed(op) ==
  /\ op.failed => op.status = 500 /\ serverCache' = serverCache
  /\ \A k \in DOMAIN serverCache \ DOMAIN serverCache' :
       IF k = op.key /\ op.stored # <<>>
       THEN ~FreshAt(op.stored[1], now)
       ELSE ~FreshAt(serverCache[k], now)

\* C20: a GET of the proxy route for (date, lang) with a server cache entry no
\* older than 6 hours (data not empty) or 1 hour (empty data) is answered from
\* the cache without a fetch of the remote API; an expired entry is deleted and
\* the remote API fetched; a failed remote fetch is answered with status 500 and
\* leaves the server cache as it was; cleanupCache removes only expired entries.
C20_ProxyPolicy ==
  [][/\ proxyOp'.op = "GET" => ArrivalAsClaimed(proxyOp')
     /\ proxyOp'.op = "response" => ResponseAsClaimed(proxyOp')]_vars

\* a GET found an expired entry, deleted it and fetched the remote API
C20_Witness ==
  /\ proxyOp.op = "GET"
  /\ proxyOp.cached # <<>>
  /\ ~FreshAt(proxyOp.cached[1], now)
  /\ proxyOp.contacted
  /\ ~MapHas(serverCache, proxyOp.key)

\* the step is the arrival of a response after which its call is still pending
IsResponseToPending ==
  /\ lookups' = <<>>
  /\ now' = now
  /\ nreloads' = nreloads
  /\ calls' # calls
  /\ Len(SelectSeq(calls', IsPending)) = Len(Pending)

\* a call with a request still awaited holds a getDayMenu that has returned
\* its value after writing it to the memory tier in this step
SiblingCompleted ==
  \E c \in 1..Len(calls') :
    /\ calls'[c].status = "pending"
    /\ \E i \in 1..Len(calls'[c].subs) : calls'[c].subs[i].st = "wait"
    /\ \E i \in 1..Len(calls'[c].subs) :
         LET sub == calls'[c].subs[i]
             key == getDayCacheKey(sub.date, calls'[c].language)
         IN  /\ sub.st = "done"
             /\ MapHas(memoryCache', key)
             /\ memoryCache'[key].timestamp = now
             /\ memoryCache'[key].data = sub.value[1]

\* the call is resolved exactly when each of its getDayMenu has returned
SettledAsClaimed(call) ==
  /\ call.status # "rejected"
  /\ call.status = "resolved" <=>
       \A i \in 1..Len(call.subs) : call.subs[i].st \in {"hit", "done"}
  /\ \A i \in 1..Len(call.subs) : call.subs[i].st \in {"hit", "wait", "done"}

IsSetStep ==
  /\ cacheOp'.op = "set"
  /\ nsets' = nsets + 1
  /\ ~cacheOp'.threw

\* the entry was under the key in one of the tiers before the step
KeptEntry(entry, key) ==
  \/ MapHas(memoryCache, key) /\ memoryCache[key] = entry
  \/ /\ MapHas(localStorage, key)
     /\ localStorage[key].json
     /\ localStorage[key].val = entry

\* the entry is what the setToDayCache of this step wrote under the key
WrittenEntry(entry, key) ==
  /\ IsSetStep
  /\ key = getDayCacheKey(cacheOp'.date, cacheOp'.language)
  /\ entry.timestamp = now
  /\ entry.data = cacheOp'.data[1]

\* C22: an entry in either tier carries the time at which its data was written,
\* through every read, promotion and eviction from the memory tier (the step of
\* a write stamps it, every other step leaves it as it was), and a read returns
\* only data of an entry stamped at most 6 hours earlier (data not empty) or at
\* most 1 hour earlier (empty data): reading an entry never extends its lifetime.
C22_ReadNeverExtends ==
  [][/\ \A key \in DOMAIN memoryCache' :
          \/ KeptEntry(memoryCache'[key], key)
          \/ WrittenEntry(memoryCache'[key], key)
     /\ \A key \in DOMAIN localStorage' :
          /\ localStorage'[key].json
          /\ \/ KeptEntry(localStorage'[key].val, key)
             \/ WrittenEntry(localStorage'[key].val, key)
     /\ IsGetStep /\ cacheOp'.data # <<>> =>
          LET key == getDayCacheKey(cacheOp'.date, cacheOp'.language)
          IN  /\ MapHas(memoryCache', key)
              /\ KeptEntry(memoryCache'[key], key)
              /\ memoryCache'[key].data = cacheOp'.data[1]
              /\ FreshAt(memoryCache'[key], now)]_vars

\* after a page load emptied the memory tier, a read six hours after the
\* writing promoted the entry with the timestamp of its writing
C22_Witness ==
  /\ cacheOp.op = "get"
  /\ cacheOp.data # <<>>
  /\ nreloads > 0
  /\ cacheOp.memBefore = <<>>
  /\ cacheOp.lsBefore # <<>>
  /\ cacheOp.memAfter = <<cacheOp.lsBefore[1].val>>
  /\ cacheOp.t = cacheOp.memAfter[1].timestamp + 6 * HOUR

\* a fetchMenu of the page awaits its getCenteredMenu
FetchInFlight ==
  \E c \in 1..Len(calls) : calls[c].fn = "fetchMenu" /\ calls[c].status = "pending"

\* C23: on the page, after the language was changed while the fetchMenu for
\* the previous language was in flight, once no fetch is in flight the days
\* displayed are those fetched for the selected language, and isLoading is
\* false only when no fetch is in flight, in whichever order the fetches end.
C23_PageShowsSelected ==
  page.isInitialized /\ page.language # "" =>
    /\ ~FetchInFlight => page.daysFor = page.language
    /\ ~page.isLoading => ~FetchInFlight

====
